---- MODULE Spec2Model ----
(***************************************************************************)
(* A model of vrlist.py: the voter-registration-list generator.           *)
(*                                                                         *)
(* Python values are modelled as follows.  A str is a sequence of          *)
(* one-character strings (so that it can be indexed and sliced); a value   *)
(* whose Python type the code inspects at run time (a pattern is a str, a  *)
(* list of 2-tuples or None; a call returns or raises) is a record         *)
(* [kind, val].  A dict is a function from its keys.                       *)
(***************************************************************************)
EXTENDS Integers, Sequences, FiniteSets, TLC

VARIABLES
    pc,                 \* where main() is blocked, or how it ended
    precinct,           \* main: precinct
    precinct_matches,   \* main: precinct_matches
    precinct_streets,   \* main: precinct_streets (sorted list)
    res,                \* select_streets: res
    just_checked,       \* select_streets: just_checked
    msg,                \* the last message select_streets printed
    use_streets,        \* main: use_streets
    primary_pat,        \* main: primary_pat
    unit_pat,           \* main: unit_pat
    pat_msg,            \* the last message obtain_pat printed
    street_matches,     \* main: street_matches
    voters,             \* main: voters
    last_toggle,        \* history: per candidate, the sign of the last in-range integer read
    dirty,              \* history: an integer was read since the start or the last recap
    prompts,            \* history: the pattern solicitations so far, in order
    input,              \* history: what the line select_streets read last was
    title,              \* main: the title given to create_report (Pending before)
    call,               \* the arguments of a function applied on its own
    ret                 \* what that function returned or raised (Pending before)

mainVars == <<pc, precinct, precinct_matches, precinct_streets, res, just_checked, msg,
              use_streets, primary_pat, unit_pat, pat_msg, street_matches, voters,
              last_toggle, dirty, prompts, input, title>>

vars == <<mainVars, call, ret>>

(***************************************************************************)
(* Bounds of the model.                                                    *)
(***************************************************************************)
MaxKeyLen == 3      \* longest pseudonumber given to make_pseudonumber_sortable
MaxPatLen == 3      \* longest pattern text given to validate_pattern
MaxLineLen == 2     \* longest line typed into select_streets
MaxRangeRows == 4   \* longest row list given to screen_pseudorange on its own
MaxRanges == 2      \* longest range list given to screen_pseudorange on its own
MaxReportRows == 2  \* longest row list given to screen_transform_report on its own

(***************************************************************************)
(* Strings.                                                                *)
(***************************************************************************)
\* The characters of the model, in code-point order.
Chars == <<" ", ",", "-", "/", "0", "1", "2", "3", "4", "5", "6", "7", "8", "9",
           "A", "B", "C", "D", "E", "F", "H", "I", "K", "L", "M", "N", "O", "R",
           "S", "T", "[", "x">>

Ord(c) == CHOOSE i \in 1..Len(Chars) : Chars[i] = c

Digits == {"0", "1", "2", "3", "4", "5", "6", "7", "8", "9"}

\* str.isdigit() of one character
IsDigitChar(c) == c \in Digits

DigitVal(c) == Ord(c) - Ord("0")

\* str.isdigit(): non-empty and every character a digit
IsDigit(s) == Len(s) > 0 /\ \A i \in 1..Len(s) : IsDigitChar(s[i])

\* s[lo:hi] with 0 <= lo, hi <= len(s) (0-based, hi exclusive)
Slice(s, lo, hi) == IF lo >= hi THEN <<>> ELSE SubSeq(s, lo + 1, hi)

RECURSIVE DecimalValue(_)
\* int() of a non-empty run of decimal digits
DecimalValue(ds) ==
    IF ds = <<>> THEN 0
    ELSE DecimalValue(SubSeq(ds, 1, Len(ds) - 1)) * 10 + DigitVal(ds[Len(ds)])

RECURSIVE LStrip(_)
LStrip(s) == IF s # <<>> /\ s[1] = " " THEN LStrip(Tail(s)) ELSE s

RECURSIVE RStrip(_)
RStrip(s) == IF s # <<>> /\ s[Len(s)] = " " THEN RStrip(SubSeq(s, 1, Len(s) - 1)) ELSE s

\* str.strip()
Strip(s) == RStrip(LStrip(s))

\* All sequences (strings, lists) over the elements cs of length at most n
RECURSIVE SeqsUpTo(_, _)
SeqsUpTo(cs, n) ==
    IF n = 0 THEN {<<>>}
    ELSE LET shorter == SeqsUpTo(cs, n - 1)
         IN  shorter \cup {Append(s, c) : s \in {t \in shorter : Len(t) = n - 1}, c \in cs}

(***************************************************************************)
(* Python values whose type the code inspects.                             *)
(***************************************************************************)
PyStr(s) == [kind |-> "str", val |-> s]
PyList(l) == [kind |-> "list", val |-> l]
PyTuple(t) == [kind |-> "tuple", val |-> t]
PyNum(n) == [kind |-> "int", val |-> n]
None == [kind |-> "None", val |-> <<>>]
Raise(e) == [kind |-> "raise", val |-> e]
Pending == [kind |-> "pending", val |-> <<>>]

Raised(v) == v.kind = "raise"

\* bool(v) of a str, a list or None
Truthy(v) == v.kind # "None" /\ v.val # <<>>

\* int(s) of a str: blanks around it dropped, an optional minus sign, decimal digits
PyInt(s) ==
    LET t == Strip(s)
        neg == t # <<>> /\ t[1] = "-"
        ds == IF neg THEN Tail(t) ELSE t
    IN  IF IsDigit(ds)
        THEN PyNum(IF neg THEN 0 - DecimalValue(ds) ELSE DecimalValue(ds))
        ELSE Raise("ValueError")

(***************************************************************************)
(* make_pseudonumber_sortable                                              *)
(***************************************************************************)
\* pseudonumber[i]: IndexError past the end
CharAt(s, i) == IF i < Len(s) THEN PyStr(<<s[i + 1]>>) ELSE Raise("IndexError")

\* The scan bound off by one: idx <= len(pseudonumber)
ScanInBounds_OffByOne(s, i) == i <= Len(s)

\* the bound of both scan loops: idx < len(pseudonumber)
ScanInBounds(s, i) == i < Len(s)

RECURSIVE ScanPrefix(_, _)
\* while num_idx < len(pseudonumber) and not pseudonumber[num_idx].isdigit(): num_idx += 1
\* The index the loop ends at, or the IndexError a read raised.
ScanPrefix(s, i) ==
    IF ~ScanInBounds(s, i) THEN PyNum(i)
    ELSE LET c == CharAt(s, i)
         IN  IF Raised(c) THEN c
             ELSE IF ~IsDigit(c.val) THEN ScanPrefix(s, i + 1)
             ELSE PyNum(i)

RECURSIVE ScanDigits(_, _)
\* while suf_idx < len(pseudonumber) and pseudonumber[suf_idx].isdigit(): suf_idx += 1
ScanDigits(s, i) ==
    IF ~ScanInBounds(s, i) THEN PyNum(i)
    ELSE LET c == CharAt(s, i)
         IN  IF Raised(c) THEN c
             ELSE IF IsDigit(c.val) THEN ScanDigits(s, i + 1)
             ELSE PyNum(i)

make_pseudonumber_sortable(pseudonumber) ==
    IF IsDigit(pseudonumber) THEN PyTuple(<<PyInt(pseudonumber).val>>)
    ELSE IF pseudonumber = <<>> THEN PyTuple(<<0>>)
    ELSE LET num_idx == ScanPrefix(pseudonumber, 0)
         IN  IF Raised(num_idx) THEN num_idx
             ELSE IF num_idx.val = Len(pseudonumber) THEN PyTuple(<<0, pseudonumber>>)
             ELSE LET suf_idx == ScanDigits(pseudonumber, num_idx.val)
                  IN  IF Raised(suf_idx) THEN suf_idx
                      ELSE LET pre == Slice(pseudonumber, 0, num_idx.val)
                               num == Slice(pseudonumber, num_idx.val, suf_idx.val)
                               suf == Slice(pseudonumber, suf_idx.val, Len(pseudonumber))
                               n == PyInt(num)
                           IN  IF Raised(n) THEN n
                               ELSE PyTuple(<<n.val, pre, suf>>)

(***************************************************************************)
(* parse_ranges, validate_pattern                                          *)
(***************************************************************************)
RECURSIVE Split(_, _)
\* str.split(sep) for a one-character separator
Split(s, sep) ==
    IF \A i \in 1..Len(s) : s[i] # sep THEN <<s>>
    ELSE LET i == CHOOSE j \in 1..Len(s) : s[j] = sep /\ \A k \in 1..(j - 1) : s[k] # sep
         IN  <<SubSeq(s, 1, i - 1)>> \o Split(SubSeq(s, i + 1, Len(s)), sep)

\* One pass of the loop body of parse_ranges: the pair appended, or the ValueError raised
ParseComponent(rang) ==
    IF Len(rang) = 1
    THEN LET a == PyInt(rang[1])
         IN  IF Raised(a) THEN a ELSE PyTuple(<<a.val, a.val>>)
    ELSE IF Len(rang) = 2
    THEN LET a == PyInt(rang[1])
             b == PyInt(rang[2])
         IN  IF Raised(a) THEN a
             ELSE IF Raised(b) THEN b
             ELSE PyTuple(<<a.val, b.val>>)
    ELSE Raise("ValueError")

RECURSIVE ParseComponents(_, _)
ParseComponents(components, acc) ==
    IF components = <<>> THEN PyList(acc)
    ELSE LET r == ParseComponent(Head(components))
         IN  IF Raised(r) THEN r
             ELSE ParseComponents(Tail(components), Append(acc, r.val))

parse_ranges(range_string) ==
    LET parts == Split(range_string, ",")
        components == [i \in 1..Len(parts) |-> Split(parts[i], "-")]
    IN  ParseComponents(components, <<>>)

\* The regular expression '.*'
DotStar == <<".", "*">>

\* re.compile(pat) over the pattern alphabet of the model: every character but "["
\* is a literal, and a "[" that nothing closes is an unterminated character set.
re_compile(pat) ==
    IF \E i \in 1..Len(pat) : pat[i] = "[" THEN Raise("re.error") ELSE PyStr(pat)

\* re.compile(pat).fullmatch(s) is not None, for the expressions of the model:
\* '.*' and the literals
re_fullmatch(pat, s) == IF pat = DotStar THEN TRUE ELSE pat = s

\* The guard without its last conjunct, pattern != '/'
IsSlashed_LoneSlash(pattern) ==
    pattern[1] = "/" /\ pattern[Len(pattern)] = "/"

\* The guard of the regex branch of validate_pattern
IsSlashed(pattern) ==
    pattern[1] = "/" /\ pattern[Len(pattern)] = "/" /\ pattern # <<"/">>

validate_pattern(pattern) ==
    IF pattern = <<>> THEN PyStr(DotStar)
    ELSE IF IsSlashed(pattern)
    THEN LET inner == Slice(pattern, 1, Len(pattern) - 1)
             c == re_compile(inner)
         IN  IF Raised(c)
             THEN IF c.val = "re.error" THEN None ELSE c
             ELSE PyStr(inner)
    ELSE LET r == parse_ranges(pattern)
         IN  IF Raised(r) /\ r.val = "ValueError" THEN None ELSE r

(***************************************************************************)
(* The screens                                                             *)
(***************************************************************************)
Dict(pairs) == [kind |-> "dict", val |-> pairs]

\* dict.items() is a sequence of <<key, value>> pairs with distinct keys
Keys(pairs) == {pairs[i][1] : i \in 1..Len(pairs)}

\* The dict the transform loop builds: new[des] = row[orig], a later pair winning
Renamed(row, pairs) ==
    IF \E i \in 1..Len(pairs) : pairs[i][1] \notin DOMAIN row THEN Raise("KeyError")
    ELSE Dict([des \in {pairs[i][2] : i \in 1..Len(pairs)} |->
                 LET i == CHOOSE j \in 1..Len(pairs) :
                              /\ pairs[j][2] = des
                              /\ \A k \in (j + 1)..Len(pairs) : pairs[k][2] # des
                 IN  row[pairs[i][1]]])

\* tuple([row[col] for col in cols])
Project(row, cols) ==
    IF \E i \in 1..Len(cols) : cols[i] \notin DOMAIN row THEN Raise("KeyError")
    ELSE PyTuple([i \in 1..Len(cols) |-> row[cols[i]]])

\* still_good with a missing column let through
StillGood_MissingPasses(row, screen) ==
    \A i \in 1..Len(screen) :
        screen[i][1] \notin DOMAIN row \/ row[screen[i][1]] = screen[i][2]

\* The inner loop of screen_transform_report: still_good
StillGood(row, screen) ==
    \A i \in 1..Len(screen) :
        ~(screen[i][1] \notin DOMAIN row \/ row[screen[i][1]] # screen[i][2])

RECURSIVE ScreenTransformReportLoop(_, _, _, _, _, _)
ScreenTransformReportLoop(src, screen, transform, report, rows, uniq) ==
    IF src = <<>> THEN PyTuple(<<rows, uniq>>)
    ELSE LET row == Head(src)
             rest == Tail(src)
         IN  IF ~StillGood(row, screen.val)
             THEN ScreenTransformReportLoop(rest, screen, transform, report, rows, uniq)
             ELSE LET new == IF Truthy(transform) THEN Renamed(row, transform.val)
                             ELSE Dict(row)
                      tup == IF Truthy(report) THEN Project(row, report.val)
                             ELSE PyTuple(<<>>)
                  IN  IF Raised(new) THEN new
                      ELSE IF Raised(tup) THEN tup
                      ELSE ScreenTransformReportLoop(
                               rest, screen, transform, report, Append(rows, new.val),
                               IF Truthy(report) THEN uniq \cup {tup.val} ELSE uniq)

\* screen is a dict; transform is a dict or None; report is a tuple or None
screen_transform_report(src, screen, transform, report) ==
    ScreenTransformReportLoop(src, screen, transform, report, <<>>, {})

RECURSIVE screen_collection(_, _, _)
\* possibilities is a list of tuples
screen_collection(src, cols, possibilities) ==
    IF src = <<>> THEN PyList(<<>>)
    ELSE LET check == Project(Head(src), cols)
             rest == screen_collection(Tail(src), cols, possibilities)
         IN  IF Raised(check) THEN check
             ELSE IF Raised(rest) THEN rest
             ELSE IF \E i \in 1..Len(possibilities) : possibilities[i] = check.val
             THEN PyList(<<Head(src)>> \o rest.val)
             ELSE rest

RECURSIVE screen_regex(_, _, _)
screen_regex(src, col, pat) ==
    IF src = <<>> THEN PyList(<<>>)
    ELSE LET rest == screen_regex(Tail(src), col, pat)
         IN  IF col \notin DOMAIN Head(src) THEN Raise("KeyError")
             ELSE IF Raised(rest) THEN rest
             ELSE IF re_fullmatch(pat, Head(src)[col])
             THEN PyList(<<Head(src)>> \o rest.val)
             ELSE rest

\* The inner loop of screen_pseudorange without its break
RECURSIVE RangeLoop_NoBreak(_, _, _)
RangeLoop_NoBreak(row, key, ranges) ==
    IF ranges = <<>> THEN PyList(<<>>)
    ELSE LET rest == RangeLoop_NoBreak(row, key, Tail(ranges))
         IN  IF Head(ranges)[1] <= key.val[1] /\ key.val[1] <= Head(ranges)[2]
             THEN PyList(<<row>> \o rest.val)
             ELSE rest

RECURSIVE RangeLoop(_, _, _)
\* for low, high in ranges: if low <= key[0] <= high: rows.append(row); break
\* The rows this appends.
RangeLoop(row, key, ranges) ==
    IF ranges = <<>> THEN PyList(<<>>)
    ELSE IF Head(ranges)[1] <= key.val[1] /\ key.val[1] <= Head(ranges)[2]
    THEN PyList(<<row>>)
    ELSE RangeLoop(row, key, Tail(ranges))

RECURSIVE screen_pseudorange(_, _, _)
screen_pseudorange(src, col, ranges) ==
    IF src = <<>> THEN PyList(<<>>)
    ELSE IF ranges = <<>> THEN screen_pseudorange(Tail(src), col, ranges)
    ELSE IF col \notin DOMAIN Head(src) THEN Raise("KeyError")
    ELSE LET key == make_pseudonumber_sortable(Head(src)[col])
             rest == screen_pseudorange(Tail(src), col, ranges)
         IN  IF Raised(key) THEN key
             ELSE IF Raised(rest) THEN rest
             ELSE PyList(RangeLoop(Head(src), key, ranges).val \o rest.val)

\* pat is a str or a list of 2-tuples: len(pat[0]) is 1 for a character of a str
\* and 2 for a tuple
LenOfFirst(pat) == IF pat.kind = "str" THEN 1 ELSE Len(pat.val[1])

screen_regex_or_pseudorange(src, col, pat) ==
    IF LenOfFirst(pat) = 1 THEN screen_regex(src, col, pat.val)
    ELSE screen_pseudorange(src, col, pat.val)

(***************************************************************************)
(* Functions applied on their own: the input is drawn, then the function   *)
(* is called once.                                                         *)
(***************************************************************************)
Call(fn, args) == [fn |-> fn, args |-> args]

NoInput == [kind |-> "none", k |-> 0]

MainIdle ==
    /\ pc = "idle"
    /\ precinct = <<>>
    /\ precinct_matches = <<>>
    /\ precinct_streets = <<>>
    /\ res = <<>>
    /\ just_checked = TRUE
    /\ msg = "none"
    /\ use_streets = <<>>
    /\ primary_pat = None
    /\ unit_pat = None
    /\ pat_msg = "none"
    /\ street_matches = <<>>
    /\ voters = <<>>
    /\ last_toggle = <<>>
    /\ dirty = FALSE
    /\ prompts = <<>>
    /\ input = NoInput
    /\ title = Pending

KeyChars == {"0", "1", "2", "B", "-"}

KeyInit ==
    /\ MainIdle
    /\ call \in {Call("make_pseudonumber_sortable", <<s>>) : s \in SeqsUpTo(KeyChars, MaxKeyLen)}
    /\ ret = Pending

KeyCall ==
    /\ call.fn = "make_pseudonumber_sortable"
    /\ ret = Pending
    /\ ret' = make_pseudonumber_sortable(call.args[1])
    /\ UNCHANGED <<mainVars, call>>

KeyNext == KeyCall

SpecKey == KeyInit /\ [][KeyNext]_vars

PatChars == {"/", "[", "1", "2", "-", ","}

PatternInit ==
    /\ MainIdle
    /\ call \in {Call("validate_pattern", <<s>>) : s \in SeqsUpTo(PatChars, MaxPatLen)}
    /\ ret = Pending

PatternCall ==
    /\ call.fn = "validate_pattern"
    /\ ret = Pending
    /\ ret' = validate_pattern(call.args[1])
    /\ UNCHANGED <<mainVars, call>>

PatternNext == PatternCall

SpecPattern == PatternInit /\ [][PatternNext]_vars

RangeValues == {<<"1", "2">>, <<"1", "2", "B">>, <<"B", "1", "2">>, <<"1", "0", "0">>}

RangePairs == {<<10, 50>>, <<12, 100>>, <<50, 10>>}

RangeInit ==
    /\ MainIdle
    /\ call \in {Call("screen_pseudorange", <<src, "address_number", ranges>>) :
                    src \in SeqsUpTo({[address_number |-> v] : v \in RangeValues}, MaxRangeRows),
                    ranges \in SeqsUpTo(RangePairs, MaxRanges)}
    /\ ret = Pending

RangeCall ==
    /\ call.fn = "screen_pseudorange"
    /\ ret = Pending
    /\ ret' = screen_pseudorange(call.args[1], call.args[2], call.args[3])
    /\ UNCHANGED <<mainVars, call>>

RangeNext == RangeCall

SpecRange == RangeInit /\ [][RangeNext]_vars

ReportCols == {"a", "b"}

ReportVals == {"x", "y"}

\* Rows with any of the columns missing
ReportRows == UNION {[D -> ReportVals] : D \in SUBSET ReportCols}

ReportScreens == {Dict(<<>>), Dict(<<<<"a", "x">>>>), Dict(<<<<"a", "x">>, <<"b", "y">>>>)}

ReportTransforms ==
    {None, Dict(<<>>), Dict(<<<<"a", "p">>>>), Dict(<<<<"a", "p">>, <<"b", "q">>>>)}

ReportReports == {None, PyTuple(<<>>), PyTuple(<<"a">>), PyTuple(<<"a", "b">>)}

ReportInit ==
    /\ MainIdle
    /\ call \in {Call("screen_transform_report", <<src, screen, transform, report>>) :
                    src \in SeqsUpTo(ReportRows, MaxReportRows),
                    screen \in ReportScreens,
                    transform \in ReportTransforms,
                    report \in ReportReports}
    /\ ret = Pending

ReportCall ==
    /\ call.fn = "screen_transform_report"
    /\ ret = Pending
    /\ ret' = screen_transform_report(call.args[1], call.args[2], call.args[3], call.args[4])
    /\ UNCHANGED <<mainVars, call>>

ReportNext == ReportCall

SpecReport == ReportInit /\ [][ReportNext]_vars

(***************************************************************************)
(* C6                                                                      *)
(***************************************************************************)
RECURSIVE C6_Matching(_, _, _)
\* The rows of src, in order, whose field col has the first element of its key
\* within at least one of the ranges
C6_Matching(src, col, ranges) ==
    IF src = <<>> THEN <<>>
    ELSE LET n == make_pseudonumber_sortable(Head(src)[col]).val[1]
             rest == C6_Matching(Tail(src), col, ranges)
         IN  IF \E i \in 1..Len(ranges) : ranges[i][1] <= n /\ n <= ranges[i][2]
             THEN <<Head(src)>> \o rest
             ELSE rest

C6_Row(v) == [address_number |-> v]

C6_Example ==
    Call("screen_pseudorange",
         <<<<C6_Row(<<"1", "2">>), C6_Row(<<"1", "2", "B">>), C6_Row(<<"B", "1", "2">>),
             C6_Row(<<"1", "0", "0">>)>>,
           "address_number", <<<<10, 50>>>>>>)

\* C6 as stated: screen_pseudorange returns, in input order and each row at most
\* once, exactly the rows whose field has its leading integer within at least one
\* inclusive range; of "12", "12B", "B12", "100" with [(10,50)] it keeps "12" and
\* "12B" and excludes "B12" (leading integer 0) and "100".
C6_Original ==
    (call.fn = "screen_pseudorange" /\ ret # Pending) =>
        /\ ret = PyList(C6_Matching(call.args[1], call.args[2], call.args[3]))
        /\ call = C6_Example =>
               ret = PyList(<<C6_Row(<<"1", "2">>), C6_Row(<<"1", "2", "B">>)>>)

\* C6 amended: the same, the leading integer being the first element of the key
\* of make_pseudonumber_sortable, which is 12 for "B12": of "12", "12B", "B12",
\* "100" with [(10,50)] it keeps "12", "12B" and "B12" and excludes "100".
C6_Amended ==
    (call.fn = "screen_pseudorange" /\ ret # Pending) =>
        /\ ret = PyList(C6_Matching(call.args[1], call.args[2], call.args[3]))
        /\ call = C6_Example =>
               ret = PyList(<<C6_Row(<<"1", "2">>), C6_Row(<<"1", "2", "B">>),
                              C6_Row(<<"B", "1", "2">>)>>)

\* The example has been screened, and a row that two ranges match has been too
C6_Witness ==
    /\ call = C6_Example
    /\ ret # Pending

C6_WitnessTwoRanges ==
    /\ call = Call("screen_pseudorange",
                   <<<<C6_Row(<<"1", "2">>)>>, "address_number", <<<<10, 50>>, <<12, 100>>>>>>)
    /\ ret = PyList(<<C6_Row(<<"1", "2">>)>>)

(***************************************************************************)
(* C9                                                                      *)
(***************************************************************************)
\* Every screened column is present in the row and equal to the required value
C9_Passes(row, screen) ==
    \A i \in 1..Len(screen.val) :
        screen.val[i][1] \in DOMAIN row /\ row[screen.val[i][1]] = screen.val[i][2]

RECURSIVE C9_PassingRows(_, _)
C9_PassingRows(src, screen) ==
    IF src = <<>> THEN <<>>
    ELSE IF C9_Passes(Head(src), screen)
    THEN <<Head(src)>> \o C9_PassingRows(Tail(src), screen)
    ELSE C9_PassingRows(Tail(src), screen)

\* The row holds exactly the renamed fields of raw
C9_IsRenamed(row, raw, pairs) ==
    /\ DOMAIN row = {pairs[i][2] : i \in 1..Len(pairs)}
    /\ \A i \in 1..Len(pairs) : row[pairs[i][2]] = raw[pairs[i][1]]

\* What the claim says of a call that returned, renaming when rename holds and
\* reporting when reporting holds
C9_Described(rename, reporting) ==
    LET src == call.args[1]
        transform == call.args[3]
        report == call.args[4]
        passing == C9_PassingRows(src, call.args[2])
        rows == ret.val[1]
        uniq == ret.val[2]
    IN  /\ Len(rows) = Len(passing)
        /\ \A k \in 1..Len(passing) :
               IF rename THEN C9_IsRenamed(rows[k], passing[k], transform.val)
               ELSE rows[k] = passing[k]
        /\ uniq = IF reporting
                  THEN {[i \in 1..Len(report.val) |-> passing[k][report.val[i]]] :
                           k \in 1..Len(passing)}
                  ELSE {}

\* C9 as stated: for every row sequence, equality map, rename table and
\* report-column list, screen_transform_report returns one output row, in input
\* order, for exactly the rows in which every screened column is present and equal
\* (a row missing a screened column is dropped without error), each holding exactly
\* the renamed fields when a rename table is given, and the set of the
\* report-column tuples of the raw rows that passed.
C9_Original ==
    (call.fn = "screen_transform_report" /\ ret # Pending) =>
        /\ ~Raised(ret)
        /\ C9_Described(call.args[3] # None, call.args[4] # None)

\* No passing row lacks a column the rename table or the report list reads
C9_ColumnsPresent ==
    \A k \in 1..Len(C9_PassingRows(call.args[1], call.args[2])) :
        LET row == C9_PassingRows(call.args[1], call.args[2])[k]
        IN  /\ Truthy(call.args[3]) => \A i \in 1..Len(call.args[3].val) :
                                           call.args[3].val[i][1] \in DOMAIN row
            /\ Truthy(call.args[4]) => \A i \in 1..Len(call.args[4].val) :
                                           call.args[4].val[i] \in DOMAIN row

\* C9 amended: when every row that passes the screen has every column the rename
\* table and the report list read, the call returns as stated, an empty rename
\* table or report list counting as none given (raw rows, empty set); when a
\* passing row lacks such a column the call raises KeyError.
C9_Amended ==
    (call.fn = "screen_transform_report" /\ ret # Pending) =>
        IF C9_ColumnsPresent
        THEN /\ ~Raised(ret)
             /\ C9_Described(Truthy(call.args[3]), Truthy(call.args[4]))
        ELSE ret = Raise("KeyError")

\* A call that dropped a row missing a screened column and kept, renamed and
\* reported another
C9_Witness ==
    /\ call = Call("screen_transform_report",
                   <<<<[c \in {"b"} |-> "y"], [c \in {"a", "b"} |-> IF c = "a" THEN "x" ELSE "y"]>>,
                     Dict(<<<<"a", "x">>>>), Dict(<<<<"a", "p">>, <<"b", "q">>>>),
                     PyTuple(<<"a", "b">>)>>)
    /\ ret = PyTuple(<<<<[c \in {"p", "q"} |-> IF c = "p" THEN "x" ELSE "y"]>>, {<<"x", "y">>}>>)

(***************************************************************************)
(* C7                                                                      *)
(***************************************************************************)
\* The key the claim describes, from the positions of the digits of s
C7_Described(s) ==
    IF s # <<>> /\ \A i \in 1..Len(s) : s[i] \in Digits THEN <<DecimalValue(s)>>
    ELSE IF s = <<>> THEN <<0>>
    ELSE IF \A i \in 1..Len(s) : s[i] \notin Digits THEN <<0, s>>
    ELSE LET first == CHOOSE i \in 1..Len(s) :
                          s[i] \in Digits /\ \A j \in 1..(i - 1) : s[j] \notin Digits
             last == CHOOSE e \in first..Len(s) :
                          /\ \A j \in first..e : s[j] \in Digits
                          /\ e = Len(s) \/ s[e + 1] \notin Digits
         IN  <<DecimalValue(SubSeq(s, first, last)), SubSeq(s, 1, first - 1),
               SubSeq(s, last + 1, Len(s))>>

C8_Described(text, min_len) ==
    IF text = <<>> THEN PyStr(DotStar)
    ELSE IF Len(text) >= min_len /\ text[1] = "/" /\ text[Len(text)] = "/"
    THEN LET inner == SubSeq(text, 2, Len(text) - 1)
         IN  IF Raised(re_compile(inner)) THEN None ELSE PyStr(inner)
    ELSE IF Raised(parse_ranges(text)) THEN None ELSE parse_ranges(text)

RECURSIVE StrCmp(_, _)
\* -1, 0, 1 as a < b, a == b, a > b for two str
StrCmp(a, b) ==
    IF a = <<>> /\ b = <<>> THEN 0
    ELSE IF a = <<>> THEN -1
    ELSE IF b = <<>> THEN 1
    ELSE IF a[1] = b[1] THEN StrCmp(Tail(a), Tail(b))
    ELSE IF Ord(a[1]) < Ord(b[1]) THEN -1 ELSE 1

RECURSIVE StrSeqCmp(_, _)
\* the same for two tuples of str
StrSeqCmp(a, b) ==
    IF a = <<>> /\ b = <<>> THEN 0
    ELSE IF a = <<>> THEN -1
    ELSE IF b = <<>> THEN 1
    ELSE IF StrCmp(a[1], b[1]) # 0 THEN StrCmp(a[1], b[1])
    ELSE StrSeqCmp(Tail(a), Tail(b))

\* the same for two keys of make_pseudonumber_sortable: an int, then str
PseudoCmp(a, b) ==
    IF a[1] < b[1] THEN -1
    ELSE IF a[1] > b[1] THEN 1
    ELSE StrSeqCmp(Tail(a), Tail(b))

\* key=lambda street: street[1] + '  ' + street[2] + '  ' + street[0]
StreetSortKey(street) == street[2] \o <<" ", " ">> \o street[3] \o <<" ", " ">> \o street[1]

RECURSIVE SortStreets(_)
\* list(precinct_streets) sorted by StreetSortKey
SortStreets(streets) ==
    IF streets = {} THEN <<>>
    ELSE LET first == CHOOSE s \in streets :
                          \A o \in streets : StrCmp(StreetSortKey(s), StreetSortKey(o)) <= 0
         IN  <<first>> \o SortStreets(streets \ {first})

voter_sort_key(voter) ==
    <<voter["address_street_name"],
      voter["address_street_suffix"],
      voter["address_street_prefix"],
      make_pseudonumber_sortable(voter["address_number"]).val,
      make_pseudonumber_sortable(voter["address_unit"]).val,
      voter["edr_date"],
      voter["vuid"]>>

\* -1, 0, 1 for two keys of voter_sort_key
VoterKeyCmp(a, b) ==
    IF StrSeqCmp(SubSeq(a, 1, 3), SubSeq(b, 1, 3)) # 0
    THEN StrSeqCmp(SubSeq(a, 1, 3), SubSeq(b, 1, 3))
    ELSE IF PseudoCmp(a[4], b[4]) # 0 THEN PseudoCmp(a[4], b[4])
    ELSE IF PseudoCmp(a[5], b[5]) # 0 THEN PseudoCmp(a[5], b[5])
    ELSE StrSeqCmp(SubSeq(a, 6, 7), SubSeq(b, 6, 7))

RECURSIVE InsertVoter(_, _)
InsertVoter(sorted, voter) ==
    IF sorted = <<>> THEN <<voter>>
    ELSE IF VoterKeyCmp(voter_sort_key(voter), voter_sort_key(Head(sorted))) < 0
    THEN <<voter>> \o sorted
    ELSE <<Head(sorted)>> \o InsertVoter(Tail(sorted), voter)

RECURSIVE SortVoters(_)
\* voters.sort(key=voter_sort_key): a stable sort
SortVoters(rows) ==
    IF rows = <<>> THEN <<>>
    ELSE InsertVoter(SortVoters(SubSeq(rows, 1, Len(rows) - 1)), rows[Len(rows)])

(***************************************************************************)
(* The voter file of the model                                             *)
(***************************************************************************)
RawRow(pct, vuid, dir, nam, typ, blk, unit) ==
    [PCTCOD |-> pct, VUIDNO |-> vuid, EDRDAT |-> <<"2", "0", "2", "0", "0", "1", "0", "1">>,
     LSTNAM |-> <<"D", "O", "E">>, NAMPFX |-> <<>>, FSTNAM |-> <<"A">>, MIDNAM |-> <<>>,
     BLKNUM |-> blk, STRDIR |-> dir, STRNAM |-> nam, STRTYP |-> typ, UNITNO |-> unit,
     SUSIND |-> <<>>]

\* Precinct 101 has three streets, precinct 102 has one, precinct 103 has nobody
VoterFile ==
    <<RawRow(<<"1", "0", "1">>, <<"1">>, <<>>, <<"O", "A", "K">>, <<"D", "R">>, <<"1", "1">>, <<"1", "1">>),
      RawRow(<<"1", "0", "2">>, <<"2">>, <<>>, <<"F", "I", "R">>, <<"C", "T">>, <<"1", "1">>, <<"1">>),
      RawRow(<<"1", "0", "1">>, <<"3">>, <<>>, <<"O", "A", "K">>, <<"D", "R">>, <<"1", "1">>, <<"1">>),
      RawRow(<<"1", "0", "1">>, <<"4">>, <<"N">>, <<"E", "L", "M">>, <<"S", "T">>, <<"1">>, <<>>),
      RawRow(<<"1", "0", "1">>, <<"5">>, <<>>, <<"O", "A", "K">>, <<"D", "R">>, <<"1">>, <<>>),
      RawRow(<<"1", "0", "2">>, <<"6">>, <<>>, <<"F", "I", "R">>, <<"C", "T">>, <<"1">>, <<>>),
      RawRow(<<"1", "0", "1">>, <<"7">>, <<>>, <<"A", "S", "H">>, <<"L", "N">>, <<"1", "1", "B">>, <<"1">>)>>

PrecinctInputs == {<<"1", "0", "1">>, <<"1", "0", "2">>, <<"1", "0", "3">>, <<" ", "1", "0", "2">>}

\* The rename table main passes to screen_transform_report
CanonicalFields ==
    <<<<"VUIDNO", "vuid">>, <<"EDRDAT", "edr_date">>, <<"LSTNAM", "name_last">>,
      <<"NAMPFX", "name_prefix">>, <<"FSTNAM", "name_first">>, <<"MIDNAM", "name_middle">>,
      <<"BLKNUM", "address_number">>, <<"STRDIR", "address_street_prefix">>,
      <<"STRNAM", "address_street_name">>, <<"STRTYP", "address_street_suffix">>,
      <<"UNITNO", "address_unit">>, <<"SUSIND", "suspense">>>>

(***************************************************************************)
(* format_street, format_pseudorange_or_regex, format_report_title         *)
(***************************************************************************)
UpperCase == <<"A", "B", "C", "D", "E", "F", "H", "I", "K", "L", "M", "N", "O", "R", "S", "T">>

LowerCase == <<"a", "b", "c", "d", "e", "f", "h", "i", "k", "l", "m", "n", "o", "r", "s", "t">>

IsCased(c) == \E i \in 1..Len(UpperCase) : c = UpperCase[i] \/ c = LowerCase[i]

\* str.upper() of one character
ToUpper(c) ==
    IF \E i \in 1..Len(LowerCase) : c = LowerCase[i]
    THEN UpperCase[CHOOSE i \in 1..Len(LowerCase) : c = LowerCase[i]]
    ELSE c

\* str.lower() of one character
ToLower(c) ==
    IF \E i \in 1..Len(UpperCase) : c = UpperCase[i]
    THEN LowerCase[CHOOSE i \in 1..Len(UpperCase) : c = UpperCase[i]]
    ELSE c

\* str.title(): a cased character is upper case after an uncased one (or at the
\* start) and lower case after a cased one
str_title(s) ==
    [i \in 1..Len(s) |->
        IF i > 1 /\ IsCased(s[i - 1]) THEN ToLower(s[i]) ELSE ToUpper(s[i])]

\* line 148
format_street(pre, name, suf) ==
    Strip(pre \o <<" ">> \o str_title(name) \o <<" ">> \o str_title(suf))

RECURSIVE str_int(_)
\* str(n) of an int
str_int(n) ==
    IF n < 0 THEN <<"-">> \o str_int(0 - n)
    ELSE IF n < 10 THEN <<Chars[Ord("0") + n]>>
    ELSE str_int(n \div 10) \o <<Chars[Ord("0") + (n % 10)]>>

\* The character U+2013 (en dash)
EnDash == "u2013"

\* One element of the generator of line 285
FormatComponent(comp) ==
    IF comp[1] = comp[2] THEN str_int(comp[1])
    ELSE str_int(comp[1]) \o <<EnDash>> \o str_int(comp[2])

RECURSIVE Join(_, _)
\* sep.join(parts)
Join(parts, sep) ==
    IF parts = <<>> THEN <<>>
    ELSE IF Len(parts) = 1 THEN parts[1]
    ELSE parts[1] \o sep \o Join(Tail(parts), sep)

format_pseudorange_or_regex(pat) ==
    IF LenOfFirst(pat) = 1
    THEN <<"/">> \o pat.val \o <<"/">>
    ELSE Join([i \in 1..Len(pat.val) |-> FormatComponent(pat.val[i])], <<",", " ">>)

\* fmt.format(*args): the format string and the strings put in its {} fields
Format(fmt, args) == PyStr([fmt |-> fmt, args |-> args])

\* format_street(*streets[0]): IndexError when streets is empty
FirstStreet(streets) ==
    IF streets = <<>> THEN Raise("IndexError")
    ELSE PyStr(format_street(streets[1][1], streets[1][2], streets[1][3]))

\* lines 296-300 and 302-306: a range list of three or more parts
IsLongRangeList(pat) == Len(pat.val) > 2 /\ LenOfFirst(pat) = 2

format_report_title(p, streets, num_streets_in_precinct, primary, unit) ==
    IF Len(streets) = num_streets_in_precinct
    THEN Format("Precinct {}, full report ({} streets)", <<p, str_int(Len(streets))>>)
    ELSE IF Len(streets) > 1
    THEN Format("Precinct {}, {} of {} streets",
                <<p, str_int(Len(streets)), str_int(num_streets_in_precinct)>>)
    ELSE LET street == FirstStreet(streets)
         IN  IF primary = PyStr(DotStar)
             THEN IF Raised(street) THEN street
                  ELSE Format("Precinct {}, {}", <<p, street.val>>)
             ELSE IF unit = PyStr(DotStar)
             THEN IF IsLongRangeList(primary)
                  THEN IF Raised(street) THEN street
                       ELSE Format("Precinct {}, portion of {}", <<p, street.val>>)
                  ELSE IF Raised(street) THEN street
                       ELSE Format("Precinct {}, {} {}",
                                   <<p, format_pseudorange_or_regex(primary), street.val>>)
             ELSE IF IsLongRangeList(unit)
                  THEN IF Raised(street) THEN street
                       ELSE Format("Precinct {}, {} {} selected units",
                                   <<p, format_pseudorange_or_regex(primary), street.val>>)
                  ELSE IF Raised(street) THEN street
                       ELSE Format("Precinct {}, {} {} #{}",
                                   <<p, format_pseudorange_or_regex(primary), street.val,
                                     format_pseudorange_or_regex(unit)>>)

(***************************************************************************)
(* main, select_streets, obtain_pat: one action for each stretch of code   *)
(* between two input() calls.                                              *)
(***************************************************************************)
SelectChars == {" ", "-", "0", "1", "2", "3", "x"}

SelectLines == SeqsUpTo(SelectChars, MaxLineLen)

\* Range lists of three parts, longer than MaxPatLen
ThreeRangeLines == {<<"1", ",", "1", ",", "1">>, <<"1", ",", "2", ",", "1", "-", "2">>}

PatternLines == SeqsUpTo(PatChars, MaxPatLen) \cup ThreeRangeLines

\* What validate_pattern(input()) can be in obtain_pat
PatternOutcomes == {validate_pattern(line) : line \in PatternLines}

Init ==
    /\ pc = "precinct_prompt"
    /\ precinct = <<>>
    /\ precinct_matches = <<>>
    /\ precinct_streets = <<>>
    /\ res = <<>>
    /\ just_checked = TRUE
    /\ msg = "none"
    /\ use_streets = <<>>
    /\ primary_pat = None
    /\ unit_pat = None
    /\ pat_msg = "none"
    /\ street_matches = <<>>
    /\ voters = <<>>
    /\ last_toggle = <<>>
    /\ dirty = FALSE
    /\ prompts = <<>>
    /\ input = NoInput
    /\ title = Pending
    /\ call = Call("main", <<>>)
    /\ ret = Pending

\* main, lines 512-530: the precinct screen of the voter file
PrecinctScreen(p) ==
    screen_transform_report(VoterFile, Dict(<<<<"PCTCOD", p>>>>), Dict(CanonicalFields),
                            PyTuple(<<"STRDIR", "STRNAM", "STRTYP">>))

\* main up to `return` at line 535: nobody lives in the precinct
NoSuchPrecinct ==
    /\ pc = "precinct_prompt"
    /\ \E line \in PrecinctInputs :
           LET r == PrecinctScreen(Strip(line))
           IN  /\ ~Raised(r)
               /\ r.val[2] = {}
               /\ precinct' = Strip(line)
               /\ precinct_matches' = r.val[1]
    /\ pc' = "no_precinct"
    /\ UNCHANGED <<precinct_streets, input, res, just_checked, msg, use_streets, primary_pat,
                   unit_pat, pat_msg, street_matches, voters, last_toggle, dirty, prompts,
                   call, ret, title>>

\* main up to the first input() of select_streets (line 201)
EnterPrecinct ==
    /\ pc = "precinct_prompt"
    /\ \E line \in PrecinctInputs :
           LET r == PrecinctScreen(Strip(line))
           IN  /\ ~Raised(r)
               /\ r.val[2] # {}
               /\ precinct' = Strip(line)
               /\ precinct_matches' = r.val[1]
               /\ precinct_streets' = SortStreets(r.val[2])
               /\ res' = [i \in 1..Cardinality(r.val[2]) |-> FALSE]
               /\ last_toggle' = [i \in 1..Cardinality(r.val[2]) |-> 0]
    /\ just_checked' = TRUE
    /\ msg' = "instructions"
    /\ pc' = "select"
    /\ UNCHANGED <<input, use_streets, primary_pat, unit_pat, pat_msg, street_matches, voters,
                   dirty, prompts, call, ret, title>>

\* What a line read by select_streets is, for n candidates: empty, not an integer
\* (junk), the integer 0, an integer past the candidates, or k / -k for candidate k
InputKind(line, n) ==
    IF line = <<>> THEN [kind |-> "empty", k |-> 0]
    ELSE IF Raised(PyInt(line)) THEN [kind |-> "junk", k |-> 0]
    ELSE IF PyInt(line).val = 0 THEN [kind |-> "zero", k |-> 0]
    ELSE IF PyInt(line).val > n \/ PyInt(line).val < 0 - n THEN [kind |-> "out_of_range", k |-> 0]
    ELSE IF PyInt(line).val > 0 THEN [kind |-> "on", k |-> PyInt(line).val]
    ELSE [kind |-> "off", k |-> 0 - PyInt(line).val]

\* The loop condition with the negation of just_checked lost
LoopContinues_NotDropped(q, checked) == q # <<>> \/ checked

\* while query or not just_checked
LoopContinues(q, checked) == q # <<>> \/ ~checked

\* select_streets, lines 203-213 and 239: the recap of an empty line
SelectRecap ==
    /\ pc = "select"
    /\ \E line \in SelectLines :
           /\ LoopContinues(line, just_checked)
           /\ line = <<>>
           /\ input' = InputKind(line, Len(res))
    /\ just_checked' = TRUE
    /\ msg' = IF \E i \in 1..Len(res) : res[i] THEN "recap" ELSE "recap_full_precinct"
    /\ dirty' = FALSE
    /\ UNCHANGED <<pc, precinct, precinct_matches, precinct_streets, res, use_streets,
                   primary_pat, unit_pat, pat_msg, street_matches, voters, last_toggle,
                   prompts, call, ret, title>>

Abs(n) == IF n < 0 THEN 0 - n ELSE n

\* res after the integer qr when a number flips the flag whatever its sign
Toggled_Flip(flags, qr) ==
    IF qr = 0 \/ Abs(qr) > Len(flags) THEN flags
    ELSE [flags EXCEPT ![Abs(qr)] = ~flags[Abs(qr)]]

\* res after the integer qr without the test qr == 0: res[-1] is the last flag
Toggled_NoZeroTest(flags, qr) ==
    IF Abs(qr) > Len(flags) THEN flags
    ELSE IF qr < 0
    THEN IF flags[Abs(qr)] THEN [flags EXCEPT ![Abs(qr)] = FALSE] ELSE flags
    ELSE LET i == IF qr = 0 THEN Len(flags) ELSE qr
         IN  IF ~flags[i] THEN [flags EXCEPT ![i] = TRUE] ELSE flags

\* lines 218-235: res after the integer qr
Toggled(flags, qr) ==
    IF qr = 0 \/ Abs(qr) > Len(flags) THEN flags
    ELSE IF qr < 0
    THEN IF flags[Abs(qr)] THEN [flags EXCEPT ![Abs(qr)] = FALSE] ELSE flags
    ELSE IF ~flags[Abs(qr)] THEN [flags EXCEPT ![Abs(qr)] = TRUE] ELSE flags

\* lines 218-235: the message printed for the integer qr
ToggleMessage(flags, qr) ==
    IF qr = 0 \/ Abs(qr) > Len(flags) THEN "no_such_street"
    ELSE IF qr < 0
    THEN IF flags[Abs(qr)] THEN "removed" ELSE "already_deselected"
    ELSE IF ~flags[Abs(qr)] THEN "added" ELSE "already_selected"

\* select_streets, lines 215-235 and 239: a line that int() accepts
SelectNumber ==
    /\ pc = "select"
    /\ \E line \in SelectLines :
           /\ LoopContinues(line, just_checked)
           /\ line # <<>>
           /\ ~Raised(PyInt(line))
           /\ input' = InputKind(line, Len(res))
           /\ res' = Toggled(res, PyInt(line).val)
           /\ msg' = ToggleMessage(res, PyInt(line).val)
           /\ last_toggle' =
                  LET qr == PyInt(line).val
                  IN  IF qr # 0 /\ Abs(qr) <= Len(res)
                      THEN [last_toggle EXCEPT ![Abs(qr)] = IF qr > 0 THEN 1 ELSE -1]
                      ELSE last_toggle
    /\ just_checked' = FALSE
    /\ dirty' = TRUE
    /\ UNCHANGED <<pc, precinct, precinct_matches, precinct_streets, use_streets,
                   primary_pat, unit_pat, pat_msg, street_matches, voters, prompts, call, ret, title>>

\* select_streets, lines 215-216, 236-239: a line that int() rejects
SelectNotANumber ==
    /\ pc = "select"
    /\ \E line \in SelectLines :
           /\ LoopContinues(line, just_checked)
           /\ line # <<>>
           /\ Raised(PyInt(line))
           /\ PyInt(line).val = "ValueError"
           /\ input' = InputKind(line, Len(res))
    /\ msg' = "not_a_number"
    /\ UNCHANGED <<pc, precinct, precinct_matches, precinct_streets, res, just_checked,
                   use_streets, primary_pat, unit_pat, pat_msg, street_matches, voters,
                   last_toggle, dirty, prompts, call, ret, title>>

RECURSIVE Selected(_, _)
\* ret = [pair[1] for pair in zip(res, streets) if pair[0]]
Selected(flags, streets) ==
    IF flags = <<>> \/ streets = <<>> THEN <<>>
    ELSE IF Head(flags) THEN <<Head(streets)>> \o Selected(Tail(flags), Tail(streets))
    ELSE Selected(Tail(flags), Tail(streets))

\* select_streets, lines 241-246: what it returns
SelectStreetsResult(flags, streets) == Selected(flags, streets)

\* The test of line 551 without its last conjunct
IsSinglePrimary_AnyRange(pat) ==
    Len(pat.val) = 1 /\ LenOfFirst(pat) = 2

\* main, line 551: a single range of a single primary number
IsSinglePrimary(pat) ==
    Len(pat.val) = 1 /\ LenOfFirst(pat) = 2 /\ pat.val[1][1] = pat.val[1][2]

\* obtain_pat, lines 253-255: `while not pat`
Accepted(pat) == Truthy(pat)

\* main, lines 555-568: the three screens and the sort, up to the input() of line 572
Prepare(use, primary, unit) ==
    LET sm == screen_collection(
                  precinct_matches,
                  <<"address_street_prefix", "address_street_name", "address_street_suffix">>,
                  use)
        pm == screen_regex_or_pseudorange(sm.val, "address_number", primary)
        um == screen_regex_or_pseudorange(pm.val, "address_unit", unit)
    IN  /\ street_matches' = sm.val
        /\ voters' = SortVoters(um.val)
        /\ pc' = "save_prompt"

\* select_streets from the empty line that ends its loop, and main up to its next
\* input(): that of obtain_pat (line 252) or that of line 572
SelectReturn ==
    /\ pc = "select"
    /\ \E line \in SelectLines :
           /\ ~LoopContinues(line, just_checked)
           /\ input' = InputKind(line, Len(res))
    /\ LET use == SelectStreetsResult(res, precinct_streets)
       IN  /\ use_streets' = use
           /\ msg' = IF use = <<>> THEN "whole_precinct" ELSE "use_those"
           /\ primary_pat' = PyStr(DotStar)
           /\ IF Len(use) = 1
              THEN /\ prompts' = Append(prompts, "primary")
                   /\ pat_msg' = "prompt"
                   /\ pc' = "primary_prompt"
                   /\ UNCHANGED <<unit_pat, street_matches, voters>>
              ELSE /\ unit_pat' = PyStr(DotStar)
                   /\ Prepare(use, PyStr(DotStar), PyStr(DotStar))
                   /\ UNCHANGED <<prompts, pat_msg>>
    /\ UNCHANGED <<precinct, precinct_matches, precinct_streets, res, just_checked,
                   last_toggle, dirty, call, ret, title>>

\* obtain_pat, lines 252-255: a pattern that is not accepted, for either prompt
ObtainPatAgain ==
    /\ pc \in {"primary_prompt", "unit_prompt"}
    /\ \E pat \in PatternOutcomes :
           /\ ~Raised(pat)
           /\ ~Accepted(pat)
    /\ pat_msg' = "oops"
    /\ UNCHANGED <<pc, precinct, precinct_matches, precinct_streets, input, res, just_checked,
                   msg, use_streets, primary_pat, unit_pat, street_matches, voters,
                   last_toggle, dirty, prompts, call, ret, title>>

\* obtain_pat returns the primary pattern (line 547), and main up to its next input()
ObtainPrimary ==
    /\ pc = "primary_prompt"
    /\ \E pat \in PatternOutcomes :
               /\ ~Raised(pat)
               /\ Accepted(pat)
               /\ primary_pat' = pat
               /\ unit_pat' = PyStr(DotStar)
               /\ IF IsSinglePrimary(pat)
                  THEN /\ prompts' = Append(prompts, "unit")
                       /\ pat_msg' = "prompt"
                       /\ pc' = "unit_prompt"
                       /\ UNCHANGED <<street_matches, voters>>
                  ELSE /\ Prepare(use_streets, pat, PyStr(DotStar))
                       /\ pat_msg' = "none"
                       /\ UNCHANGED prompts
    /\ UNCHANGED <<precinct, precinct_matches, precinct_streets, input, res, just_checked,
                   msg, use_streets, last_toggle, dirty, call, ret, title>>

\* obtain_pat returns the unit pattern (line 553), and main up to the input() of line 572
ObtainUnit ==
    /\ pc = "unit_prompt"
    /\ \E pat \in PatternOutcomes :
               /\ ~Raised(pat)
               /\ Accepted(pat)
               /\ unit_pat' = pat
               /\ Prepare(use_streets, primary_pat, pat)
    /\ pat_msg' = "none"
    /\ UNCHANGED <<precinct, precinct_matches, precinct_streets, input, res, just_checked,
                   msg, use_streets, primary_pat, last_toggle, dirty, prompts, call, ret, title>>

\* What is typed at the input() of line 572
SaveLines == {<<>>, <<"x">>}

\* main, lines 572-575: a file name is given; format_report_title makes the title
\* create_report gets, or raises
SaveReport ==
    /\ pc = "save_prompt"
    /\ \E save_to \in SaveLines : save_to # <<>>
    /\ LET t == format_report_title(precinct, use_streets, Len(precinct_streets),
                                    primary_pat, unit_pat)
       IN  IF Raised(t)
           THEN /\ pc' = "raised"
                /\ ret' = t
                /\ UNCHANGED title
           ELSE /\ pc' = "saved"
                /\ title' = t
                /\ UNCHANGED ret
    /\ UNCHANGED <<precinct, precinct_matches, precinct_streets, input, res, just_checked,
                   msg, use_streets, primary_pat, unit_pat, pat_msg, street_matches, voters,
                   last_toggle, dirty, prompts, call>>

\* main, lines 572-577: no file name is given
Goodbye ==
    /\ pc = "save_prompt"
    /\ \E save_to \in SaveLines : save_to = <<>>
    /\ pc' = "goodbye"
    /\ UNCHANGED <<precinct, precinct_matches, precinct_streets, input, res, just_checked,
                   msg, use_streets, primary_pat, unit_pat, pat_msg, street_matches, voters,
                   last_toggle, dirty, prompts, call, ret, title>>

Next ==
    \/ NoSuchPrecinct
    \/ EnterPrecinct
    \/ SelectRecap
    \/ SelectNumber
    \/ SelectNotANumber
    \/ SelectReturn
    \/ ObtainPatAgain
    \/ ObtainPrimary
    \/ ObtainUnit
    \/ SaveReport
    \/ Goodbye

Spec == Init /\ [][Next]_vars

(***************************************************************************)
(* C1 .. C5, C10                                                           *)
(***************************************************************************)
\* select_streets has returned
Returned == msg \in {"use_those", "whole_precinct"}

NoneSelected == \A i \in 1..Len(res) : ~res[i]

\* The candidates whose flag is set, in candidate order
C1_Chosen ==
    LET idx == {i \in 1..Len(res) : res[i]}
        nth(n) == CHOOSE i \in idx : Cardinality({j \in idx : j < i}) = n - 1
    IN  [n \in 1..Cardinality(idx) |-> precinct_streets[nth(n)]]

\* C1: when select_streets ends with no candidate selected it returns the full
\* candidate sequence unmodified; otherwise it returns exactly the selected
\* candidates, in candidate order.
C1_ReturnsAllOrChosen ==
    Returned => use_streets = IF NoneSelected THEN precinct_streets ELSE C1_Chosen

Recaps == {"recap", "recap_full_precinct"}

\* C2 as stated: the loop ends only on an empty line, and an empty line ends it
\* exactly when the action before it was an empty-line recap; after anything else
\* (no input yet, a toggle, an out-of-range number, a line that is no integer) it
\* prints a recap and does not end.
C2_Original ==
    [][pc = "select" =>
          /\ pc' # "select" => input'.kind = "empty"
          /\ input'.kind = "empty" =>
                 IF msg \in Recaps
                 THEN pc' # "select" /\ Returned' /\ res' = res
                 ELSE pc' = "select" /\ msg' \in Recaps /\ res' = res]_vars

\* C2 amended: the loop ends only on an empty line, and an empty line ends it
\* exactly when no integer line was read since the session began or since the last
\* recap (so also as the very first input, and after a recap followed only by
\* lines that are no integers); after an integer line it prints a recap and does
\* not end.
C2_Amended ==
    [][pc = "select" =>
          /\ pc' # "select" => input'.kind = "empty"
          /\ input'.kind = "empty" =>
                 IF ~dirty
                 THEN pc' # "select" /\ Returned' /\ res' = res
                 ELSE pc' = "select" /\ msg' \in Recaps /\ res' = res]_vars

\* The loop has ended with a street selected: after a toggle and a recap
C2_Witness == pc # "select" /\ msg = "use_those" /\ input.kind = "empty"

\* C3: whenever street selection ends with no street selected, the roster covers
\* the entire precinct: the membership screen keeps every row that passed the
\* precinct screen and both pattern screens are match-everything.
C3_WholePrecinct ==
    (pc = "save_prompt" /\ NoneSelected) =>
        /\ street_matches = precinct_matches
        /\ primary_pat = PyStr(DotStar)
        /\ unit_pat = PyStr(DotStar)

\* C4: candidate k is selected iff the most recent in-range non-zero integer input
\* of absolute value k was positive (unselected if there was none); one input k
\* or -k changes at most the flag of candidate k; k on a selected candidate and
\* -k on an unselected one change no flag.
C4_Flags ==
    /\ [](pc \notin {"precinct_prompt", "no_precinct"} =>
              \A k \in 1..Len(res) : res[k] <=> last_toggle[k] = 1)
    /\ [][pc = "select" =>
              /\ \A j \in 1..Len(res) :
                     res'[j] # res[j] => input'.kind \in {"on", "off"} /\ input'.k = j
              /\ (input'.kind = "on" /\ res[input'.k]) => res' = res
              /\ (input'.kind = "off" /\ ~res[input'.k]) => res' = res]_vars

\* Candidate 1 was added and removed again, candidate 2 was added
C4_Witness == pc = "select" /\ last_toggle = <<-1, 1, 0>> /\ res = <<FALSE, TRUE, FALSE>>

\* C5: an invalid line (the integer 0, an integer past the candidates, a non-empty
\* line that is no integer) leaves every flag unchanged, is reported, and does
\* not end the session: select_streets awaits the next line.
C5_InvalidInput ==
    [][(pc = "select" /\ input'.kind \in {"zero", "out_of_range", "junk"}) =>
          /\ res' = res
          /\ pc' = "select"
          /\ msg' = IF input'.kind = "junk" THEN "not_a_number" ELSE "no_such_street"
          /\ UNCHANGED <<use_streets, primary_pat, unit_pat, voters>>]_vars

\* A zero was just reported with a street selected
C5_Witness ==
    /\ pc = "select"
    /\ input.kind = "zero"
    /\ msg = "no_such_street"
    /\ \E i \in 1..Len(res) : res[i]

\* A pattern is a single range with low == high
C10_SingleNumber(pat) ==
    pat.kind = "list" /\ Len(pat.val) = 1 /\ pat.val[1][1] = pat.val[1][2]

\* C10: once street selection has returned, an address-number pattern is solicited
\* iff exactly one street was returned, and is match-everything otherwise; a unit
\* pattern is solicited iff an address-number pattern was and it is a single range
\* with low == high, and is match-everything otherwise; the unit prompt never comes
\* before the address-number prompt; a solicitation ends only with a valid pattern.
C10_Solicitations ==
    /\ prompts \in {<<>>, <<"primary">>, <<"primary", "unit">>}
    /\ pc = "primary_prompt" => prompts = <<"primary">>
    /\ pc = "unit_prompt" => prompts = <<"primary", "unit">>
    /\ Returned =>
           /\ prompts # <<>> <=> Len(use_streets) = 1
           /\ prompts = <<>> => primary_pat = PyStr(DotStar)
    /\ pc \in {"unit_prompt", "save_prompt"} =>
           /\ Len(prompts) = 2 <=> (Len(prompts) >= 1 /\ C10_SingleNumber(primary_pat))
           /\ primary_pat \in PatternOutcomes /\ primary_pat # None /\ primary_pat.val # <<>>
    /\ pc = "save_prompt" =>
           /\ Len(prompts) < 2 => unit_pat = PyStr(DotStar)
           /\ unit_pat \in PatternOutcomes /\ unit_pat # None /\ unit_pat.val # <<>>

\* Both patterns were solicited and the unit pattern restricts the roster
C10_Witness ==
    /\ pc = "save_prompt"
    /\ prompts = <<"primary", "unit">>
    /\ unit_pat = PyList(<<<<1, 1>>>>)
    /\ Len(voters) = 1

(***************************************************************************)
(* C11                                                                     *)
(***************************************************************************)
\* A title was made for create_report
Titled == pc = "saved" /\ title.kind = "str"

C11_Restricted(pat) == pat # PyStr(DotStar)

\* A range list with three or more sub-ranges
C11_ThreeOrMore(pat) == pat.kind = "list" /\ Len(pat.val) >= 3

\* All the streets of the precinct are used: all were selected, or none was
C11_AllUsed == Len(use_streets) = Len(precinct_streets) \/ NoneSelected

\* What C11 says of the title of a report
C11_Described ==
    LET fmt == title.val.fmt
        one == Len(use_streets) = 1 /\ C11_Restricted(primary_pat)
    IN  /\ fmt = "Precinct {}, full report ({} streets)" =>
               C11_AllUsed /\ ~C11_Restricted(primary_pat) /\ ~C11_Restricted(unit_pat)
        /\ one =>
               IF C11_Restricted(unit_pat)
               THEN fmt \in {"Precinct {}, {} {} #{}", "Precinct {}, {} {} selected units"}
               ELSE fmt \in {"Precinct {}, {} {}", "Precinct {}, portion of {}"}
        /\ fmt = "Precinct {}, portion of {}" <=>
               (one /\ ~C11_Restricted(unit_pat) /\ C11_ThreeOrMore(primary_pat))
        /\ fmt = "Precinct {}, {} {} selected units" <=>
               (one /\ C11_Restricted(unit_pat) /\ C11_ThreeOrMore(unit_pat))

\* C11: for every precinct size M >= 1, selection and pair of pattern specs, the
\* title is the full-report form only when all M streets are used with no
\* address-number or unit restriction; with exactly one street selected and a
\* non-default address-number spec it is a single-street+range form (+unit when a
\* unit spec is given), abbreviated exactly when the corresponding spec is a range
\* list of three or more sub-ranges.
C11_TitleSummarizes == Titled => C11_Described

\* The same for precincts of two or more streets
C11_SeveralStreets == (Titled /\ Len(precinct_streets) >= 2) => C11_Described

\* main never ends in an exception of format_report_title
C11_TitleProduced == pc # "raised"

\* An abbreviated title of a precinct of several streets
C11_PortionReached ==
    Titled /\ Len(precinct_streets) >= 2 /\ title.val.fmt = "Precinct {}, portion of {}"

C11_SelectedUnitsReached ==
    Titled /\ Len(precinct_streets) >= 2
           /\ title.val.fmt = "Precinct {}, {} {} selected units"

====

